---- MODULE Spec2Model ----
(***************************************************************************)
(* var_annot: the VCF annotation pipeline of src/var_annot.py.             *)
(*                                                                         *)
(* A string is a sequence of symbols.  The separators "=", ";", "," and    *)
(* "-" are symbols of their own, every other symbol stands for a run of    *)
(* characters that holds no separator ("snp", "0.4", "DP").  A missing     *)
(* cell (numpy NaN, which read_csv produces for an empty field) and the    *)
(* padding of str.split(expand=True) (None) are the reserved one-symbol    *)
(* strings NaN and None: neither has a split method.                       *)
(* A table (pandas DataFrame) is a record of its column names, the dtype   *)
(* of each column, its index labels and its rows; a row is a function      *)
(* from column name to cell.                                               *)
(***************************************************************************)
EXTENDS Integers, Sequences, FiniteSets, TLC

\* Largest number of data rows of an input VCF file.
MaxRows == 2

----------------------------------------------------------------------------
(* Strings *)

NaN == <<"NaN">>
None == <<"None">>
IsStr(x) == x # NaN /\ x # None

Range(s) == {s[i] : i \in 1..Len(s)}

\* str.split(sep): the pieces between the occurrences of sep, at least one.
RECURSIVE SplitFrom(_, _, _, _)
SplitFrom(s, sep, i, cur) ==
    IF i > Len(s) THEN <<cur>>
    ELSE IF s[i] = sep THEN <<cur>> \o SplitFrom(s, sep, i + 1, <<>>)
    ELSE SplitFrom(s, sep, i + 1, Append(cur, s[i]))

Split(s, sep) == SplitFrom(s, sep, 1, <<>>)

Digit(d) == <<"0", "1", "2", "3", "4", "5", "6", "7", "8", "9">>[d + 1]

\* str(n) of a non-negative int: its decimal digits, no leading zero.
RECURSIVE IntToStr(_)
IntToStr(n) == IF n < 10 THEN <<Digit(n)>>
               ELSE IntToStr(n \div 10) \o <<Digit(n % 10)>>

\* Column names.
CHROM == <<"#CHROM">>
POS == <<"POS">>
REF == <<"REF">>
ALT == <<"ALT">>
INFO == <<"INFO">>
DP == <<"DP">>
AO == <<"AO">>
AF == <<"AF">>
TYPE == <<"TYPE">>
CPRV == <<"CPRV">>
EXAC == <<"ALLELE_FREQUENCY(ExAC)">>

\* str(x) of a cell of a column of the given dtype: an int prints its digits,
\* a missing value prints "nan", a str is itself.
Str(dtype, x) == IF dtype = "int64" THEN IntToStr(x)
                 ELSE IF x = NaN THEN <<"nan">>
                 ELSE x

\* row.apply(str)
ApplyStr(row, dtypes) == [c \in DOMAIN row |-> Str(dtypes[c], row[c])]

----------------------------------------------------------------------------
(* Tables *)

EmptyTable == [columns |-> <<>>, dtypes |-> <<>>, index |-> <<>>, rows |-> <<>>]

RangeIndex(n) == [i \in 1..n |-> i - 1]

HasColumns(df, names) == Range(names) \subseteq Range(df.columns)

\* df[[...]]: the named columns, in the order named.
SelectColumns(df, names) ==
    [columns |-> names,
     dtypes |-> [c \in Range(names) |-> df.dtypes[c]],
     index |-> df.index,
     rows |-> [i \in 1..Len(df.rows) |->
                  [c \in Range(names) |-> df.rows[i][c]]]]

\* reset_index(drop=True)
reset_index(df) == [df EXCEPT !.index = RangeIndex(Len(df.rows))]

Max(S) == CHOOSE m \in S : \A k \in S : k <= m
Min(S) == CHOOSE m \in S : \A k \in S : m <= k

----------------------------------------------------------------------------
(* convert_col_to_df: the KeyValueColumnDecoder *)

\* df[col].str.split(elem_sep, expand=True): one positional column per piece;
\* a short row is padded with None, a missing cell is missing in every column.
str_split_expand(df, col, elem_sep) ==
    LET n == Len(df.rows)
        pieces(i) == IF df.rows[i][col] = NaN THEN <<>>
                     ELSE Split(df.rows[i][col], elem_sep)
        width == Max({0} \cup {Len(pieces(i)) : i \in 1..n})
    IN [index |-> df.index,
        cells |-> [i \in 1..n |-> [j \in 1..width |->
                     IF df.rows[i][col] = NaN THEN NaN
                     ELSE IF j <= Len(pieces(i)) THEN pieces(i)[j]
                     ELSE None]]]

\* The cases in which convert_col_to_df raises: no such column (KeyError), no
\* row 0 (IndexError at iloc[0]), a cell that is no str (AttributeError), an
\* element without the key-value separator (IndexError at [1]).
convert_col_to_df_raises(df, col, key_value_sep, elem_sep) ==
    \/ ~HasColumns(df, <<col>>)
    \/ Len(df.rows) = 0
    \/ LET sp == str_split_expand(df, col, elem_sep)
       IN \E i \in 1..Len(sp.cells) : \E j \in 1..Len(sp.cells[i]) :
             \/ ~IsStr(sp.cells[i][j])
             \/ Len(Split(sp.cells[i][j], key_value_sep)) < 2

\* The decoded table: the header is the key of each element of row 0, every
\* cell the second piece of its element.  Its columns are positional.
convert_col_to_df(df, col, key_value_sep, elem_sep) ==
    LET sp == str_split_expand(df, col, elem_sep)
        key_values == sp.cells[1]
        header == [j \in 1..Len(key_values) |->
                      Split(key_values[j], key_value_sep)[1]]
    IN [columns |-> header,
        index |-> sp.index,
        cells |-> [i \in 1..Len(sp.cells) |-> [j \in 1..Len(sp.cells[i]) |->
                     Split(sp.cells[i][j], key_value_sep)[2]]]]

EmptyInfo == [columns |-> <<>>, index |-> <<>>, cells |-> <<>>]

----------------------------------------------------------------------------
(* expand_df: the RowExpander *)

\* columns_dict.values(): the split of each expandable cell, in the order of
\* `columns` (a dict keeps insertion order).
columns_dict(row, columns, sep) ==
    [k \in 1..Len(columns) |-> Split(row[columns[k]], sep)]

\* zip(*seqs): one tuple per position, up to the end of the shortest.
zip(seqs) ==
    LET k == IF Len(seqs) = 0 THEN 0
             ELSE Min({Len(seqs[c]) : c \in 1..Len(seqs)})
    IN [i \in 1..k |-> [c \in 1..Len(seqs) |-> seqs[c][i]]]

\* AssignItem with `item[0]` written for `item[counter]`.
AssignItemFirst(row, columns, item) ==
    [c \in DOMAIN row |->
        IF \E k \in 1..Len(columns) : columns[k] = c THEN item[1] ELSE row[c]]

\* for counter, column in enumerate(columns_dict.keys()):
\*     row[column] = item[counter]
AssignItem(row, columns, item) ==
    [c \in DOMAIN row |->
        IF \E k \in 1..Len(columns) : columns[k] = c
        THEN item[CHOOSE k \in 1..Len(columns) : columns[k] = c]
        ELSE row[c]]

\* The loop over zipped: the row object is overwritten in place by each item
\* and its str() copy is appended.
RECURSIVE EmitItems(_, _, _, _, _)
EmitItems(row, dtypes, columns, zipped, i) ==
    IF i > Len(zipped) THEN <<>>
    ELSE LET r == AssignItem(row, columns, zipped[i])
         IN <<ApplyStr(r, dtypes)>> \o EmitItems(r, dtypes, columns, zipped, i + 1)

\* The rows one source row appends to new_df.
ExpandRow(row, dtypes, columns, sep) ==
    EmitItems(row, dtypes, columns, zip(columns_dict(row, columns, sep)), 1)

\* The loop over df.iterrows(), from source row n on: the appended rows, each
\* under the index label of its source row.
RECURSIVE ExpandFrom(_, _, _, _)
ExpandFrom(df, columns, sep, n) ==
    IF n > Len(df.rows) THEN [index |-> <<>>, rows |-> <<>>]
    ELSE LET emitted == ExpandRow(df.rows[n], df.dtypes, columns, sep)
             rest == ExpandFrom(df, columns, sep, n + 1)
         IN [index |-> [i \in 1..Len(emitted) |-> df.index[n]] \o rest.index,
             rows |-> emitted \o rest.rows]

\* Columns of new_df: `columns`, then the row labels append adds to them.
AppendedColumns(df, columns, appended) ==
    IF appended = 0 THEN columns
    ELSE columns \o SelectSeq(df.columns,
                              LAMBDA c : \A k \in 1..Len(columns) : columns[k] # c)

\* new_df at the end of the loop, before reset_index.
expand_df_new_df(df, columns, sep) ==
    LET out == ExpandFrom(df, columns, sep, 1)
        cols == AppendedColumns(df, columns, Len(out.rows))
    IN [columns |-> cols,
        dtypes |-> [c \in Range(cols) |-> "object"],
        index |-> out.index,
        rows |-> out.rows]

\* expand_df raises when an expandable column is absent (KeyError) or holds a
\* cell that is no str (AttributeError: a float has no split).
expand_df_raises(df, columns, sep) ==
    \/ (Len(df.rows) > 0 /\ ~HasColumns(df, columns))
    \/ \E i \in 1..Len(df.rows) : \E k \in 1..Len(columns) :
          ~IsStr(df.rows[i][columns[k]])

expand_df(df, columns, sep) == reset_index(expand_df_new_df(df, columns, sep))

----------------------------------------------------------------------------
(* subset_vcf: DECODE_INFO, PROJECT, EXPAND *)

InfoColumns == <<DP, AO, AF, TYPE>>
VcfColumns == <<CHROM, POS, REF, ALT>>
\* ExpandColumns with the alternate allele left out.
ExpandColumnsWithoutAlt == <<TYPE, AF>>
\* The columns subset_vcf hands to expand_df.
ExpandColumns == <<TYPE, ALT, AF>>

\* info[[...]] on the decoded table: the named columns by their position.
SelectInfo(info, names) ==
    [columns |-> names,
     dtypes |-> [c \in Range(names) |-> "object"],
     index |-> info.index,
     rows |-> [i \in 1..Len(info.cells) |-> [c \in Range(names) |->
                 info.cells[i][CHOOSE j \in 1..Len(info.columns) :
                                   info.columns[j] = c]]]]

\* df.join(info): the rows of info under the same index label.
join(df, other) ==
    [columns |-> df.columns \o other.columns,
     dtypes |-> df.dtypes @@ other.dtypes,
     index |-> df.index,
     rows |-> [i \in 1..Len(df.rows) |->
                 df.rows[i] @@
                 other.rows[CHOOSE k \in 1..Len(other.rows) :
                               other.index[k] = df.index[i]]]]

project_raises(df, info) ==
    \/ ~HasColumns(info, InfoColumns)
    \/ ~HasColumns(df, VcfColumns)

project(df, info) ==
    join(SelectColumns(df, VcfColumns), SelectInfo(info, InfoColumns))

----------------------------------------------------------------------------
(* build_cprv_col: the CompositeKeyBuilder *)

build_cprv_col_raises(df, chromosome, position, reference, variant) ==
    ~HasColumns(df, <<chromosome, position, reference, variant>>)

\* df['CPRV'] = df[chromosome]; then += '-' + df[column].apply(str)
build_cprv_col(df, chromosome, position, reference, variant) ==
    LET key(row) == row[chromosome]
                    \o <<"-">> \o Str(df.dtypes[position], row[position])
                    \o <<"-">> \o Str(df.dtypes[reference], row[reference])
                    \o <<"-">> \o Str(df.dtypes[variant], row[variant])
    IN [columns |-> Append(df.columns, CPRV),
        dtypes |-> df.dtypes @@ (CPRV :> "object"),
        index |-> df.index,
        rows |-> [i \in 1..Len(df.rows) |->
                    df.rows[i] @@ (CPRV :> key(df.rows[i]))]]

----------------------------------------------------------------------------
(* The remote allele-frequency service and the merge *)

\* df['CPRV'].to_list()
endpoint_column(df) == [i \in 1..Len(df.rows) |-> df.rows[i][CPRV]]

\* requests.post raises on a transport failure; response.json() raises on a
\* body that is no JSON text.  The response status is never read.
call_exac_server_raises(outcome) ==
    \/ outcome.kind = "transport_error"
    \/ outcome.body.json = "invalid"

\* response.json(): the parsed body.
call_exac_server(outcome) == outcome.body

\* json_response.values() exists on a JSON object only (AttributeError on a
\* list, and on the None of a response that never arrived).
get_allele_freqs_raises(json_response) == json_response.json # "object"

\* get_allele_freqs with the KeyError branch skipping the entry: the list is
\* filled up with np.nan at its end.
get_allele_freqs_skipping(json_response) ==
    LET found == SelectSeq(json_response.items,
                           LAMBDA it : "allele_freq" \in DOMAIN it.value)
    IN [i \in 1..Len(json_response.items) |->
           IF i <= Len(found) THEN found[i].value.allele_freq ELSE "nan"]

\* item['allele_freq'], np.nan on KeyError, one per value in dict order.
get_allele_freqs(json_response) ==
    [i \in 1..Len(json_response.items) |->
        IF "allele_freq" \in DOMAIN json_response.items[i].value
        THEN json_response.items[i].value.allele_freq
        ELSE "nan"]

\* [item for item in json_response]: the keys in dict order.
get_cprv(json_response) ==
    [i \in 1..Len(json_response.items) |-> json_response.items[i].key]

\* pd.DataFrame({'ALLELE_FREQUENCY(ExAC)': allele_freqs, 'CPRV': cprv})
response_df(allele_freqs, cprv) ==
    [columns |-> <<EXAC, CPRV>>,
     dtypes |-> (EXAC :> "float64") @@ (CPRV :> "object"),
     index |-> RangeIndex(Len(cprv)),
     rows |-> [i \in 1..Len(cprv) |->
                 (EXAC :> allele_freqs[i]) @@ (CPRV :> cprv[i])]]

\* MergeFrom with the left table reduced to the first row of each key.
RECURSIVE MergeFromFirstOfKey(_, _, _, _)
MergeFromFirstOfKey(left, right, on, i) ==
    IF i > Len(left.rows) THEN <<>>
    ELSE LET matches == SelectSeq(right.rows,
                                  LAMBDA r : r[on] = left.rows[i][on])
             seen == \E h \in 1..(i - 1) : left.rows[h][on] = left.rows[i][on]
         IN (IF seen THEN <<>>
             ELSE [m \in 1..Len(matches) |-> left.rows[i] @@ matches[m]])
            \o MergeFromFirstOfKey(left, right, on, i + 1)

\* The rows the inner join emits for left row i on: one per right row that
\* holds the same key, in the order of the left rows.
RECURSIVE MergeFrom(_, _, _, _)
MergeFrom(left, right, on, i) ==
    IF i > Len(left.rows) THEN <<>>
    ELSE LET matches == SelectSeq(right.rows,
                                  LAMBDA r : r[on] = left.rows[i][on])
         IN [m \in 1..Len(matches) |-> left.rows[i] @@ matches[m]]
            \o MergeFrom(left, right, on, i + 1)

\* df.merge(right, on=on): how='inner'.
merge(left, right, on) ==
    LET rows == MergeFrom(left, right, on, 1)
        added == SelectSeq(right.columns, LAMBDA c : c # on)
    IN [columns |-> left.columns \o added,
        dtypes |-> left.dtypes @@ right.dtypes,
        index |-> RangeIndex(Len(rows)),
        rows |-> rows]

\* df.drop([name], axis=1)
drop(df, name) ==
    SelectColumns(df, SelectSeq(df.columns, LAMBDA c : c # name))

merge_raises(left, right, on) ==
    ~HasColumns(left, <<on>>) \/ ~HasColumns(right, <<on>>)

----------------------------------------------------------------------------
(* write_output: REORDER and WRITE *)

OutputColumns == <<CHROM, POS, REF, ALT, TYPE, DP, AO, AF, EXAC>>

reorder_raises(df) == ~HasColumns(df, OutputColumns)
reorder(df) == SelectColumns(df, OutputColumns)

\* to_csv(index=False): the header line and one line of cells per row, in
\* the order of the columns.
to_csv(df) ==
    [header |-> df.columns,
     lines |-> [i \in 1..Len(df.rows) |->
                  [j \in 1..Len(df.columns) |-> df.rows[i][df.columns[j]]]]]

NoFile == [header |-> <<>>, lines |-> <<>>]

----------------------------------------------------------------------------
(* pd.read_csv: LOAD *)

Digits == {"0", "1", "2", "3", "4", "5", "6", "7", "8", "9"}
DigitValue(d) == CHOOSE v \in 0..9 : Digit(v) = d
IsDigits(s) == Len(s) > 0 /\ \A i \in 1..Len(s) : s[i] \in Digits

RECURSIVE StrToInt(_)
StrToInt(s) == IF Len(s) = 1 THEN DigitValue(s[1])
               ELSE 10 * StrToInt(SubSeq(s, 1, Len(s) - 1)) + DigitValue(s[Len(s)])

FileColumns == <<CHROM, POS, REF, ALT, INFO>>

\* A column of digit fields is read as int64, any other as object; an empty
\* field is read as NaN.
read_csv(file) ==
    LET isInt(c) == Len(file) > 0 /\ \A i \in 1..Len(file) : IsDigits(file[i][c])
        cell(c, x) == IF isInt(c) THEN StrToInt(x)
                      ELSE IF x = <<>> THEN NaN
                      ELSE x
    IN [columns |-> FileColumns,
        dtypes |-> [c \in Range(FileColumns) |->
                      IF isInt(c) THEN "int64" ELSE "object"],
        index |-> RangeIndex(Len(file)),
        rows |-> [i \in 1..Len(file) |->
                    [c \in Range(FileColumns) |-> cell(c, file[i][c])]]]

----------------------------------------------------------------------------
(* The inputs: data lines of a VCF file, answers of the remote service *)

Line(chrom, pos, ref, alt, info) ==
    (CHROM :> chrom) @@ (POS :> pos) @@ (REF :> ref) @@ (ALT :> alt)
    @@ (INFO :> info)

\* DP=50;AO=20,5;AF=0.4,0.1;TYPE=snp,snp
InfoMulti ==
    <<"DP", "=", "50", ";", "AO", "=", "20", ",", "5", ";",
      "AF", "=", "0.4", ",", "0.1", ";", "TYPE", "=", "snp", ",", "snp">>
\* DP=30;AO=7;AF=0.2;TYPE=ins
InfoSingle ==
    <<"DP", "=", "30", ";", "AO", "=", "7", ";",
      "AF", "=", "0.2", ";", "TYPE", "=", "ins">>
\* AO=9;DP=40;AF=0.3;TYPE=del: the keys in another order
InfoReordered ==
    <<"AO", "=", "9", ";", "DP", "=", "40", ";",
      "AF", "=", "0.3", ";", "TYPE", "=", "del">>
\* DP=60;AO=8,4;AF=0.6;TYPE=snp,mnp: AF holds one value for two alleles
InfoMismatch ==
    <<"DP", "=", "60", ";", "AO", "=", "8", ",", "4", ";",
      "AF", "=", "0.6", ";", "TYPE", "=", "snp", ",", "mnp">>
\* DP=30;AO=7;AF=0.2;snp: an element without "="
InfoNoSeparator ==
    <<"DP", "=", "30", ";", "AO", "=", "7", ";", "AF", "=", "0.2", ";", "snp">>
\* DP=30;AO=7;AF=0.2;NS=1: no TYPE key
InfoNoType ==
    <<"DP", "=", "30", ";", "AO", "=", "7", ";",
      "AF", "=", "0.2", ";", "NS", "=", "1">>

LineMulti == Line(<<"1">>, <<"1", "0", "0">>, <<"A">>, <<"T", ",", "G">>, InfoMulti)
LineSingle == Line(<<"1">>, <<"1", "0", "0">>, <<"A">>, <<"T">>, InfoSingle)
LineReordered == Line(<<"X">>, <<"2", "0", "5">>, <<"A">>, <<"G">>, InfoReordered)
LineMismatch == Line(<<"1">>, <<"1", "0", "0">>, <<"A">>, <<"T", ",", "G">>, InfoMismatch)
LineNoSeparator == Line(<<"1">>, <<"1", "0", "0">>, <<"A">>, <<"T">>, InfoNoSeparator)
LineNoType == Line(<<"1">>, <<"1", "0", "0">>, <<"A">>, <<"G">>, InfoNoType)
LineNoAlt == Line(<<"1">>, <<"1", "0", "0">>, <<"A">>, <<>>, InfoSingle)

Lines == {LineMulti, LineSingle, LineReordered, LineMismatch,
          LineNoSeparator, LineNoType, LineNoAlt}

VcfFiles == UNION {[1..n -> Lines] : n \in 0..MaxRows}

\* The composite keys the remote service may answer under.
KeyUniverse == << <<"1", "-", "1", "0", "0", "-", "A", "-", "T">>,
                  <<"1", "-", "1", "0", "0", "-", "A", "-", "G">>,
                  <<"X", "-", "2", "0", "5", "-", "A", "-", "G">> >>

Freqs == {"0.25", "0.5"}
\* An entry of the response, with or without the allele_freq field.
Entries == {[filter |-> "PASS"]}
           \cup {[filter |-> "PASS", allele_freq |-> f] : f \in Freqs}

\* JSON objects that answer at least one key: each key at most once, in the
\* order of KeyUniverse.
JsonObjects ==
    LET n == Len(KeyUniverse)
        order(P) == SelectSeq([i \in 1..n |-> i], LAMBDA i : i \in P)
    IN UNION {{[i \in 1..Len(order(P)) |->
                  [key |-> KeyUniverse[order(P)[i]], value |-> f[order(P)[i]]]] :
               f \in [P -> Entries]} : P \in (SUBSET (1..n)) \ {{}}}

NoJson == [json |-> "none", items |-> <<>>]
Bodies == {[json |-> "invalid", items |-> <<>>],
           [json |-> "array", items |-> <<>>]}
          \cup {[json |-> "object", items |-> o] : o \in JsonObjects}

Statuses == {200, 500}
NoOutcome == [kind |-> "none", status |-> 0, body |-> NoJson]
Outcomes == {[kind |-> "transport_error", status |-> 0, body |-> NoJson]}
            \cup {[kind |-> "response", status |-> st, body |-> b] :
                     st \in Statuses, b \in Bodies}

----------------------------------------------------------------------------
(* run: the Pipeline *)

VARIABLES
    pc,          \* the stage run() is about to execute, "DONE" or "ABORTED"
    failed,      \* the stage whose code raised, "none" while none has
    stages,      \* the stages executed so far, in order
    vcf,         \* LOAD: the table read_csv returned
    info,        \* DECODE_INFO: the decoded INFO table
    joined,      \* PROJECT: the eight retained columns
    new_df,      \* EXPAND: new_df of expand_df before reset_index
    expanded,    \* EXPAND: the table subset_vcf returns
    keyed,       \* BUILD_KEY: the expanded table with its CPRV column
    requests,    \* LOOKUP: the request bodies posted to the remote service
    outcome,     \* LOOKUP: what the remote call came back with
    json_response, \* LOOKUP: the parsed response body
    merged,      \* MERGE: the table get_exac_data returns
    final,       \* REORDER: the table in output column order
    written,     \* WRITE: whether the output file exists
    output       \* WRITE: the content of the output file

vars == <<pc, failed, stages, vcf, info, joined, new_df, expanded, keyed,
          requests, outcome, json_response, merged, final, written, output>>

Stages == <<"LOAD", "DECODE_INFO", "PROJECT", "EXPAND", "BUILD_KEY", "LOOKUP",
            "MERGE", "REORDER", "WRITE">>

StageNumber(stage) == CHOOSE i \in 1..Len(Stages) : Stages[i] = stage

\* Proceed with every exception swallowed.
ProceedSwallowing(stage, raised) ==
    IF StageNumber(stage) = Len(Stages) THEN "DONE"
    ELSE Stages[StageNumber(stage) + 1]

\* run() has no handler: a statement that raises ends the run, one that
\* returns is followed by the next.
Proceed(stage, raised) ==
    IF raised THEN "ABORTED"
    ELSE IF StageNumber(stage) = Len(Stages) THEN "DONE"
    ELSE Stages[StageNumber(stage) + 1]

Step(stage, raised) ==
    /\ pc' = Proceed(stage, raised)
    /\ failed' = IF raised THEN stage ELSE failed
    /\ stages' = Append(stages, stage)

Init ==
    /\ pc = "LOAD"
    /\ failed = "none"
    /\ stages = <<>>
    /\ vcf = EmptyTable
    /\ info = EmptyInfo
    /\ joined = EmptyTable
    /\ new_df = EmptyTable
    /\ expanded = EmptyTable
    /\ keyed = EmptyTable
    /\ requests = <<>>
    /\ outcome = NoOutcome
    /\ json_response = NoJson
    /\ merged = EmptyTable
    /\ final = EmptyTable
    /\ written = FALSE
    /\ output = NoFile

\* df = pd.read_csv(file_path, ...): raises when the file cannot be read.
Load ==
    /\ pc = "LOAD"
    /\ \E readable \in BOOLEAN, file \in VcfFiles :
         LET raised == ~readable
         IN /\ vcf' = IF raised THEN vcf ELSE read_csv(file)
            /\ Step("LOAD", raised)
    /\ UNCHANGED <<info, joined, new_df, expanded, keyed, requests, outcome,
                   json_response, merged, final, written, output>>

\* info = convert_col_to_df(df, 'INFO', '=', ';')
DecodeInfo ==
    /\ pc = "DECODE_INFO"
    /\ LET raised == convert_col_to_df_raises(vcf, INFO, "=", ";")
       IN /\ info' = IF raised THEN info
                     ELSE convert_col_to_df(vcf, INFO, "=", ";")
          /\ Step("DECODE_INFO", raised)
    /\ UNCHANGED <<vcf, joined, new_df, expanded, keyed, requests, outcome,
                   json_response, merged, final, written, output>>

\* info = info[[...]]; df = df[[...]]; df = df.join(info)
Project ==
    /\ pc = "PROJECT"
    /\ LET raised == project_raises(vcf, info)
       IN /\ joined' = IF raised THEN joined ELSE project(vcf, info)
          /\ Step("PROJECT", raised)
    /\ UNCHANGED <<vcf, info, new_df, expanded, keyed, requests, outcome,
                   json_response, merged, final, written, output>>

\* df = expand_df(df, ['TYPE', 'ALT', 'AF'], ',')
Expand ==
    /\ pc = "EXPAND"
    /\ LET raised == expand_df_raises(joined, ExpandColumns, ",")
       IN /\ new_df' = IF raised THEN new_df
                       ELSE expand_df_new_df(joined, ExpandColumns, ",")
          /\ expanded' = IF raised THEN expanded
                         ELSE expand_df(joined, ExpandColumns, ",")
          /\ Step("EXPAND", raised)
    /\ UNCHANGED <<vcf, info, joined, keyed, requests, outcome,
                   json_response, merged, final, written, output>>

\* df = build_cprv_col(df, '#CHROM', 'POS', 'REF', 'ALT')
BuildKey ==
    /\ pc = "BUILD_KEY"
    /\ LET raised == build_cprv_col_raises(expanded, CHROM, POS, REF, ALT)
       IN /\ keyed' = IF raised THEN keyed
                      ELSE build_cprv_col(expanded, CHROM, POS, REF, ALT)
          /\ Step("BUILD_KEY", raised)
    /\ UNCHANGED <<vcf, info, joined, new_df, expanded, requests, outcome,
                   json_response, merged, final, written, output>>

\* json_response = call_exac_server(df): one POST of all the keys; what comes
\* back is the remote side's choice.
Lookup ==
    /\ pc = "LOOKUP"
    /\ \E o \in Outcomes :
         LET noColumn == ~HasColumns(keyed, <<CPRV>>)
             raised == noColumn \/ call_exac_server_raises(o)
         IN /\ requests' = IF noColumn THEN requests
                           ELSE Append(requests, endpoint_column(keyed))
            /\ outcome' = IF noColumn THEN outcome ELSE o
            /\ json_response' = IF raised THEN json_response
                                ELSE call_exac_server(o)
            /\ Step("LOOKUP", raised)
    /\ UNCHANGED <<vcf, info, joined, new_df, expanded, keyed, merged, final,
                   written, output>>

\* allele_freqs, cprv, response_df, df.merge(response_df, on='CPRV'), df.drop
Merge ==
    /\ pc = "MERGE"
    /\ LET raised == \/ get_allele_freqs_raises(json_response)
                     \/ merge_raises(keyed, response_df(<<>>, <<>>), CPRV)
       IN /\ merged' = IF raised THEN merged
                       ELSE drop(merge(keyed,
                                       response_df(get_allele_freqs(json_response),
                                                   get_cprv(json_response)),
                                       CPRV), CPRV)
          /\ Step("MERGE", raised)
    /\ UNCHANGED <<vcf, info, joined, new_df, expanded, keyed, requests,
                   outcome, json_response, final, written, output>>

\* df = df[['#CHROM', ..., 'ALLELE_FREQUENCY(ExAC)']]
Reorder ==
    /\ pc = "REORDER"
    /\ LET raised == reorder_raises(merged)
       IN /\ final' = IF raised THEN final ELSE reorder(merged)
          /\ Step("REORDER", raised)
    /\ UNCHANGED <<vcf, info, joined, new_df, expanded, keyed, requests,
                   outcome, json_response, merged, written, output>>

\* df.to_csv(write_path, ...): raises when ./output cannot be written to.
Write ==
    /\ pc = "WRITE"
    /\ \E writable \in BOOLEAN :
         LET raised == ~writable
         IN /\ written' = IF raised THEN written ELSE TRUE
            /\ output' = IF raised THEN output ELSE to_csv(final)
            /\ Step("WRITE", raised)
    /\ UNCHANGED <<vcf, info, joined, new_df, expanded, keyed, requests,
                   outcome, json_response, merged, final>>

Next ==
    \/ Load
    \/ DecodeInfo
    \/ Project
    \/ Expand
    \/ BuildKey
    \/ Lookup
    \/ Merge
    \/ Reorder
    \/ Write

Spec == Init /\ [][Next]_vars

----------------------------------------------------------------------------
(* Properties *)

Ran(stage) == \E i \in 1..Len(stages) : stages[i] = stage
Completed(stage) == Ran(stage) /\ failed # stage

\* The positions of new_df filled from source row j of the table expand_df
\* was given.
Emitted(j) == {p \in 1..Len(new_df.index) : new_df.index[p] = joined.index[j]}

Pieces(j, c) == Split(joined.rows[j][c], ",")
SameCardinality(j, cols) ==
    \A c \in cols, d \in cols : Len(Pieces(j, c)) = Len(Pieces(j, d))

CompositeKey(row) ==
    row[CHROM] \o <<"-">> \o row[POS] \o <<"-">> \o row[REF]
    \o <<"-">> \o row[ALT]

Answered(key) ==
    \E n \in 1..Len(json_response.items) : json_response.items[n].key = key

\* k1=v1;k2=v2;... from the keys and the values of one decoded row.
RECURSIVE Encode(_, _, _, _)
Encode(keys, values, key_value_sep, elem_sep) ==
    IF Len(keys) = 0 THEN <<>>
    ELSE IF Len(keys) = 1 THEN keys[1] \o <<key_value_sep>> \o values[1]
    ELSE keys[1] \o <<key_value_sep>> \o values[1] \o <<elem_sep>>
         \o Encode(Tail(keys), Tail(values), key_value_sep, elem_sep)

MultiValued == {ALT, AO, AF, TYPE}

\* C1: subset_vcf turns a source row whose ALT, AO, AF and TYPE cells each
\* hold k comma-joined values into k rows whose ALT, AO, AF and TYPE hold the
\* i-th value each; the row 1,100,A,"T,G",DP=50;AO=20,5;AF=0.4,0.1;TYPE=snp,snp
\* becomes (1,100,A,T,snp,50,20,0.4) and (1,100,A,G,snp,50,5,0.1).
C1_SubsetVcfSplitsAltAoAfType ==
    Completed("EXPAND") =>
      /\ \A j \in 1..Len(joined.rows) :
            SameCardinality(j, MultiValued) =>
              /\ Cardinality(Emitted(j)) = Len(Pieces(j, ALT))
              /\ \A i \in 1..Len(Pieces(j, ALT)) : \A c \in MultiValued :
                    LET p == Min(Emitted(j)) + i - 1
                    IN p \in Emitted(j) /\ expanded.rows[p][c] = Pieces(j, c)[i]
      /\ vcf.rows = read_csv(<<LineMulti>>).rows =>
            [i \in 1..Len(expanded.rows) |->
                [n \in 1..8 |-> expanded.rows[i][OutputColumns[n]]]]
            = << << <<"1">>, <<"1", "0", "0">>, <<"A">>, <<"T">>, <<"snp">>,
                    <<"50">>, <<"20">>, <<"0.4">> >>,
                 << <<"1">>, <<"1", "0", "0">>, <<"A">>, <<"G">>, <<"snp">>,
                    <<"50">>, <<"5">>, <<"0.1">> >> >>

\* C2: a source row whose expandable columns all split into k values gives
\* exactly k consecutive rows; row i holds the i-th value of each expandable
\* column and the str() of the source row's value in every other column.
C2_ExpandEmitsKAlignedRows ==
    Completed("EXPAND") =>
      \A j \in 1..Len(joined.rows) :
        SameCardinality(j, Range(ExpandColumns)) =>
          LET k == Len(Pieces(j, ExpandColumns[1]))
          IN /\ Cardinality(Emitted(j)) = k
             /\ \A i \in 1..k :
                   LET p == Min(Emitted(j)) + i - 1
                   IN /\ p \in Emitted(j)
                      /\ DOMAIN expanded.rows[p] = DOMAIN joined.rows[j]
                      /\ \A c \in DOMAIN joined.rows[j] :
                            expanded.rows[p][c] =
                              IF c \in Range(ExpandColumns) THEN Pieces(j, c)[i]
                              ELSE Str(joined.dtypes[c], joined.rows[j][c])

\* Reached: two source rows were expanded, one of them on two alleles.
C2_Witness ==
    /\ Completed("EXPAND")
    /\ Len(joined.rows) = 2
    /\ \E j \in 1..2 : /\ SameCardinality(j, Range(ExpandColumns))
                        /\ Len(Pieces(j, ALT)) = 2
    /\ joined.rows[1][DP] # joined.rows[2][DP]

\* C3: when the response holds an entry for every submitted key, the merged
\* table holds every row of the expanded table exactly once, each with a
\* frequency or the not-found marker, also when rows share a key.
C3_MergeKeepsEveryRowOnce ==
    (Completed("MERGE") /\ \A i \in 1..Len(requests[1]) : Answered(requests[1][i]))
      => /\ Len(merged.rows) = Len(expanded.rows)
         /\ \A i \in 1..Len(expanded.rows) :
               /\ \A c \in DOMAIN expanded.rows[i] :
                     merged.rows[i][c] = expanded.rows[i][c]
               /\ merged.rows[i][EXAC] \in Freqs \cup {"nan"}

\* Reached: a merge of a table in which two rows share their composite key,
\* every key answered.
C3_Witness ==
    /\ Completed("MERGE")
    /\ \A i \in 1..Len(requests[1]) : Answered(requests[1][i])
    /\ \E i, h \in 1..Len(requests[1]) : i # h /\ requests[1][i] = requests[1][h]

\* C4: the frequency of a merged row is the allele_freq the response holds
\* under that row's own #CHROM-POS-REF-ALT, and the not-found marker exactly
\* when that entry has no allele_freq.
C4_FrequencyComesFromOwnKey ==
    Completed("MERGE") =>
      \A m \in 1..Len(merged.rows) :
        \E n \in 1..Len(json_response.items) :
          LET it == json_response.items[n]
          IN /\ it.key = CompositeKey(merged.rows[m])
             /\ merged.rows[m][EXAC] =
                  IF "allele_freq" \in DOMAIN it.value
                  THEN it.value.allele_freq ELSE "nan"

\* Reached: merged rows with two different frequencies and one without.
C4_Witness ==
    /\ Completed("MERGE")
    /\ \A f \in Freqs \cup {"nan"} :
         \E m \in 1..Len(merged.rows) : merged.rows[m][EXAC] = f

\* C5: a merge that does not fail keeps every row of the expanded table, the
\* rows whose key the response does not hold included.
C5_MergeNeverDropsUnansweredRow ==
    Completed("MERGE") =>
      \A i \in 1..Len(expanded.rows) :
        \E m \in 1..Len(merged.rows) :
          \A c \in DOMAIN expanded.rows[i] : merged.rows[m][c] = expanded.rows[i][c]

\* C6: expand_df fails, and returns no table, when the expandable columns of
\* a source row split into different numbers of values.
C6_CardinalityMismatchRaises ==
    (Ran("EXPAND") /\ \E j \in 1..Len(joined.rows) :
                         ~SameCardinality(j, Range(ExpandColumns)))
      => failed = "EXPAND" /\ expanded = EmptyTable

\* C7: a lookup that ends in a transport failure, a non-success status or an
\* unparseable body aborts the run at LOOKUP: no merge, no output.
C7_FailedLookupAbortsRun ==
    (Ran("LOOKUP") /\ (\/ outcome.kind = "transport_error"
                       \/ outcome.kind = "response" /\ outcome.status # 200
                       \/ outcome.kind = "response" /\ outcome.body.json = "invalid"))
      => /\ pc = "ABORTED"
         /\ failed = "LOOKUP"
         /\ ~Ran("MERGE")
         /\ merged = EmptyTable
         /\ ~written

\* C8: a stage that fails is the last stage of its run and no output file is
\* written; an output file exists only when every stage completed.
C8_FailureEndsRunWithoutOutput ==
    /\ failed # "none" =>
         /\ pc = "ABORTED"
         /\ stages[Len(stages)] = failed
         /\ ~written
         /\ output = NoFile
    /\ written => (failed = "none" /\ stages = Stages)

\* Reached: a run aborted by the remote call or the merge, after the request
\* was sent.
C8_Witness ==
    /\ pc = "ABORTED"
    /\ failed \in {"LOOKUP", "MERGE"}
    /\ Len(requests) = 1

\* C9: re-encoding any decoded row under the decoded table's column names, in
\* their order, gives back the packed string of that row.
C9_DecodeThenEncodeIsIdentity ==
    Completed("DECODE_INFO") =>
      \A r \in 1..Len(vcf.rows) :
        Encode(info.columns, info.cells[r], "=", ";") = vcf.rows[r][INFO]

\* C10: the stages run in the order LOAD, DECODE_INFO, PROJECT, EXPAND,
\* BUILD_KEY, LOOKUP, MERGE, REORDER, WRITE, each at most once and none
\* skipped; every key sent is built from an expanded row, its alternate
\* allele holds no comma, and a completed run has sent exactly one request.
C10_StagesInOrderKeysAfterExpand ==
    /\ Len(stages) <= Len(Stages)
    /\ stages = SubSeq(Stages, 1, Len(stages))
    /\ Len(requests) <= 1
    /\ pc = "DONE" => Len(requests) = 1
    /\ \A q \in 1..Len(requests) :
         /\ Len(requests[q]) = Len(expanded.rows)
         /\ \A i \in 1..Len(requests[q]) :
               /\ requests[q][i] = CompositeKey(expanded.rows[i])
               /\ "," \notin Range(expanded.rows[i][ALT])

\* Reached: a completed run over a file with a multi-allelic line.
C10_Witness ==
    /\ pc = "DONE"
    /\ \E j \in 1..Len(joined.rows) : "," \in Range(joined.rows[j][ALT])

====
